---- MODULE Spec2Model ----
(***************************************************************************)
(* PG-Tutor: the Poisson-Gamma belief estimator (bayesian_model.py), the   *)
(* topic repository (knowledge_graph.py) and the adaptive teacher          *)
(* (teacher.py), as a state machine; and the web backend built on them:    *)
(* the session service (services/session_service.py) and the WebSocket     *)
(* connection manager (core/connection_manager.py, main.py).               *)
(*                                                                         *)
(* Python values are modelled as follows.                                  *)
(*   - a list is a sequence, a dict is a function on its key set, a tuple  *)
(*     is a sequence, an object is a record of its attributes;             *)
(*   - None is the record None; an Optional[Topic] is None or a topic;     *)
(*   - a float quotient a / b is the fraction Frac(a, b) in lowest terms,  *)
(*     so two quotients are equal exactly when their values are equal;     *)
(*   - a raised exception is a result record whose field raised names it;  *)
(*   - random.choice / random.randint are nondeterministic choices.        *)
(***************************************************************************)
EXTENDS Integers, Sequences, FiniteSets, TLC

VARIABLES
    knowledge_graph,        \* AITeacher.knowledge_graph: [topics_by_level, topics_by_name]
    bayesian_model,         \* AITeacher.bayesian_model: a BayesianKnowledgeModel object
    current_student_level,  \* AITeacher.current_student_level
    session_history,        \* AITeacher.session_history: list of session records
    initial_alpha,          \* the initial_alpha argument the teacher was constructed with
    initial_beta,           \* the initial_beta argument the teacher was constructed with
    answers,                \* the correct flags observe_student_performance was called with
                            \* since construction or the last reset_session, in call order
    result,                 \* the last operation, its arguments and what it returned or raised
    _sessions,              \* SessionService._sessions: session id -> session dict
    active_connections,     \* ConnectionManager.active_connections: session id -> list
    endpoints,              \* the websocket_endpoint coroutine of each websocket
    send_raises             \* the exception class the server's send raises once the
                            \* client of a websocket has gone

\* the state of the web backend
web == <<_sessions, active_connections, endpoints, send_raises>>

vars == <<knowledge_graph, bayesian_model, current_student_level,
          session_history, initial_alpha, initial_beta, answers, result, web>>

(***************************************************************************)
(* Bounds of the exploration.                                              *)
(***************************************************************************)
\* priors (a0, b0) range over 1..MaxPrior x 1..MaxPrior
MaxPrior == 2
\* observe_student_performance is called at most MaxHistory times between resets
MaxHistory == 3
\* ... and at most MaxLongHistory times in the long session of SpecSummary
MaxLongHistory == 6
\* current_level arguments range from -LevelMargin to (highest sample level) + LevelMargin
LevelMargin == 2
\* update_belief is called directly at most MaxUpdates times
MaxUpdates == 2
\* the arrays passed to update_belief hold at most MaxObsTotal observations in total
MaxObsTotal == 3
\* each observation passed to update_belief directly is in 0..MaxObs
MaxObs == 3

\* max_levels_ahead arguments of get_next_level_topics range over 0..MaxAhead
MaxAhead == 3
\* add_topic is called at most MaxAdds times after construction
MaxAdds == 2

\* the sessions of a service count at most MaxAnswered answers together
MaxAnswered == 3
\* a driven session counts at most MaxDriven answers between resets
MaxDriven == 5
\* the client of a websocket sends at most MaxMessages messages
MaxMessages == 1
\* send_personal_message is called at most MaxPersonal times
MaxPersonal == 1

(***************************************************************************)
(* Python values.                                                          *)
(***************************************************************************)
None == [none |-> TRUE]

Returned(op, args, value) == [op |-> op, args |-> args, raised |-> "", value |-> value]

RECURSIVE GCD(_, _)
GCD(a, b) == IF b = 0 THEN a ELSE GCD(b, a % b)

\* the float a / b (b > 0, a >= 0), kept as a fraction in lowest terms
Frac(a, b) == LET g == GCD(a, b) IN <<a \div g, b \div g>>

\* p < q on fractions with positive denominators
FracLess(p, q) == p[1] * q[2] < q[1] * p[2]

\* int(p) for a non-negative fraction
FracInt(p) == p[1] \div p[2]

RECURSIVE SumSeq(_)
SumSeq(s) == IF s = <<>> THEN 0 ELSE Head(s) + SumSeq(Tail(s))

RECURSIVE Flatten(_)
Flatten(ss) == IF ss = <<>> THEN <<>> ELSE Head(ss) \o Flatten(Tail(ss))

SetMin(S) == CHOOSE m \in S : \A x \in S : m <= x

SetMax(S) == CHOOSE m \in S : \A x \in S : x <= m

\* sorted(S) for a set of integers
RECURSIVE sorted(_)
sorted(S) == IF S = {} THEN <<>> ELSE <<SetMin(S)>> \o sorted(S \ {SetMin(S)})

Range(s) == {s[i] : i \in DOMAIN s}

(***************************************************************************)
(* knowledge_graph.py                                                      *)
(***************************************************************************)
\* difficulty is kept in hundredths (0.2 is 20)
Topic(name, level, difficulty, prerequisites, content) ==
    [name |-> name, level |-> level, difficulty |-> difficulty,
     prerequisites |-> prerequisites, content |-> content]

sample_topics == <<
    Topic("Introduction to Algebra", 0, 20, <<>>,
          "Basic algebraic expressions and equations"),
    Topic("Variables and Expressions", 0, 30, <<>>,
          "Understanding variables and evaluating expressions"),
    Topic("Linear Equations", 1, 40, <<"Introduction to Algebra">>,
          "Solving linear equations with one variable"),
    Topic("Basic Inequalities", 1, 50, <<"Variables and Expressions">>,
          "Understanding and solving basic inequalities"),
    Topic("Quadratic Equations", 2, 60, <<"Linear Equations">>,
          "Solving quadratic equations by factoring"),
    Topic("Systems of Equations", 2, 70, <<"Linear Equations">>,
          "Solving systems of linear equations"),
    Topic("Polynomial Functions", 3, 80, <<"Quadratic Equations">>,
          "Understanding and working with polynomial functions"),
    Topic("Trigonometric Basics", 3, 90, <<"Linear Equations", "Quadratic Equations">>,
          "Introduction to sine, cosine, tangent"),
    Topic("Calculus Fundamentals", 4, 95, <<"Polynomial Functions", "Trigonometric Basics">>,
          "Introduction to derivatives and integrals") >>

\* the state KnowledgeGraph.__init__ sets before it builds the sample graph
EmptyGraph == [topics_by_level |-> <<>>, topics_by_name |-> <<>>]

\* self.topics_by_level[topic.level].append(topic) on a defaultdict(list), then
\* self.topics_by_name[topic.name] = topic
add_topic(self, topic) ==
    [topics_by_level |->
        [l \in DOMAIN self.topics_by_level \cup {topic.level} |->
            IF l = topic.level
            THEN (IF l \in DOMAIN self.topics_by_level
                  THEN Append(self.topics_by_level[l], topic)
                  ELSE <<topic>>)
            ELSE self.topics_by_level[l]],
     topics_by_name |->
        [n \in DOMAIN self.topics_by_name \cup {topic.name} |->
            IF n = topic.name THEN topic ELSE self.topics_by_name[n]]]

\* for topic in topics: self.add_topic(topic)
RECURSIVE AddAll(_, _)
AddAll(self, topics) ==
    IF topics = <<>> THEN self
    ELSE AddAll(add_topic(self, Head(topics)), Tail(topics))

_build_sample_graph(self) == AddAll(self, sample_topics)

\* KnowledgeGraph()
KnowledgeGraph == _build_sample_graph(EmptyGraph)

\* self.topics_by_level.get(level, [])
get_topics_at_level(self, level) ==
    IF level \in DOMAIN self.topics_by_level THEN self.topics_by_level[level] ELSE <<>>

get_all_levels(self) == sorted(DOMAIN self.topics_by_level)

get_topic_by_name(self, name) ==
    IF name \in DOMAIN self.topics_by_name THEN self.topics_by_name[name] ELSE None

\* get_random_topic_at_level drawing from the level above when it holds a topic
get_random_topic_at_level_above(self, level) ==
    LET topics == get_topics_at_level(self, level)
        above == get_topics_at_level(self, level + 1)
    IN IF above # <<>> THEN Range(above)
       ELSE IF topics # <<>> THEN Range(topics) ELSE {None}

\* the outcomes of random.choice(topics) if topics else None
get_random_topic_at_level(self, level) ==
    LET topics == get_topics_at_level(self, level) IN
    IF topics # <<>> THEN Range(topics) ELSE {None}

\* range(a, b) as the list a, a+1, .., b-1
range(a, b) == [i \in 1..(IF b > a THEN b - a ELSE 0) |-> a + i - 1]

\* get_next_level_topics with the range started at current_level
get_next_level_topics_from_current(self, current_level, max_levels_ahead) ==
    LET all_levels == get_all_levels(self) IN
    IF all_levels = <<>>
    THEN [raised |-> "ValueError", value |-> None]
    ELSE LET top == SetMax(Range(all_levels)) + 1
             stop == IF current_level + max_levels_ahead + 1 < top
                     THEN current_level + max_levels_ahead + 1 ELSE top
             next_levels == range(current_level, stop)
         IN [raised |-> "",
             value |-> Flatten([i \in DOMAIN next_levels |->
                                   get_topics_at_level(self, next_levels[i])])]

\* max() of an empty list raises ValueError; otherwise the topics of the levels
\* current_level+1 .. min(current_level+max_levels_ahead, highest level), in order
get_next_level_topics(self, current_level, max_levels_ahead) ==
    LET all_levels == get_all_levels(self) IN
    IF all_levels = <<>>
    THEN [raised |-> "ValueError", value |-> None]
    ELSE LET top == SetMax(Range(all_levels)) + 1
             stop == IF current_level + max_levels_ahead + 1 < top
                     THEN current_level + max_levels_ahead + 1 ELSE top
             next_levels == range(current_level + 1, stop)
         IN [raised |-> "",
             value |-> Flatten([i \in DOMAIN next_levels |->
                                   get_topics_at_level(self, next_levels[i])])]

is_valid_prerequisite(self, topic_name, student_level) ==
    LET topic == get_topic_by_name(self, topic_name) IN
    IF topic = None THEN FALSE ELSE topic.level <= student_level

(***************************************************************************)
(* bayesian_model.py                                                       *)
(***************************************************************************)
BayesianKnowledgeModel(alpha, beta) ==
    [alpha |-> alpha, beta |-> beta,
     posterior_alpha |-> alpha, posterior_beta |-> beta,
     lambda_history |-> <<>>, observation_history |-> <<>>]

\* get_expected_lambda computed from the prior instead of the posterior
get_expected_lambda_of_prior(self) ==
    IF self.beta > 0
    THEN Frac(self.alpha, self.beta)
    ELSE Frac(self.posterior_alpha, self.posterior_beta)

get_expected_lambda(self) ==
    IF self.posterior_beta > 0
    THEN Frac(self.posterior_alpha, self.posterior_beta)
    ELSE Frac(self.alpha, self.beta)

\* update_belief with beta advanced by one per call instead of by len(observations)
update_belief_one_per_call(self, observations) ==
    LET sum_x == SumSeq(observations)
        updated == [self EXCEPT !.posterior_alpha = self.posterior_alpha + sum_x,
                                !.posterior_beta = self.posterior_beta + 1]
    IN [updated EXCEPT
            !.lambda_history = Append(@, get_expected_lambda(updated)),
            !.observation_history = Append(@, observations)]

\* update_belief with the two increments exchanged
update_belief_swapped(self, observations) ==
    LET n == Len(observations)
        sum_x == SumSeq(observations)
        updated == [self EXCEPT !.posterior_alpha = self.posterior_alpha + n,
                                !.posterior_beta = self.posterior_beta + sum_x]
    IN [updated EXCEPT
            !.lambda_history = Append(@, get_expected_lambda(updated)),
            !.observation_history = Append(@, observations)]

\* the model after update_belief(observations); the call returns
\* (posterior_alpha, posterior_beta) of that model
update_belief(self, observations) ==
    LET n == Len(observations)
        sum_x == SumSeq(observations)
        updated == [self EXCEPT !.posterior_alpha = self.posterior_alpha + sum_x,
                                !.posterior_beta = self.posterior_beta + n]
    IN [updated EXCEPT
            !.lambda_history = Append(@, get_expected_lambda(updated)),
            !.observation_history = Append(@, observations)]

get_posterior_distribution(self) ==
    [alpha |-> self.posterior_alpha, beta |-> self.posterior_beta,
     expected_lambda |-> get_expected_lambda(self)]

(***************************************************************************)
(* teacher.py: AITeacher.  self is the record of the teacher's attributes. *)
(***************************************************************************)
AITeacher(kg, a0, b0) ==
    [knowledge_graph |-> kg,
     bayesian_model |-> BayesianKnowledgeModel(a0, b0),
     current_student_level |-> 0,
     session_history |-> <<>>]

\* the mapping that feeds topic.level on a wrong answer
observation_of_never_lower(topic, correct) ==
    IF correct THEN topic.level + 1 ELSE topic.level

\* the observation a right or wrong answer on topic is mapped to
observation_of(topic, correct) ==
    IF correct THEN topic.level + 1
    ELSE (IF topic.level - 1 > 0 THEN topic.level - 1 ELSE 0)

\* observe_student_performance with the record inserted at the front of the history
observe_student_performance_insert_first(self, topic, correct) ==
    LET observation == observation_of(topic, correct)
        model == update_belief(self.bayesian_model, <<observation>>)
    IN [self EXCEPT
            !.bayesian_model = model,
            !.session_history =
                <<[topic |-> topic.name,
                   level |-> topic.level,
                   correct |-> correct,
                   observed_level |-> observation,
                   estimated_lambda |-> get_expected_lambda(model)]>> \o @]

\* observe_student_performance recording the estimate read before the update
observe_student_performance_stale_estimate(self, topic, correct) ==
    LET observation == observation_of(topic, correct)
        model == update_belief(self.bayesian_model, <<observation>>)
    IN [self EXCEPT
            !.bayesian_model = model,
            !.session_history = Append(@,
                [topic |-> topic.name,
                 level |-> topic.level,
                 correct |-> correct,
                 observed_level |-> observation,
                 estimated_lambda |-> get_expected_lambda(self.bayesian_model)])]

\* the teacher after observe_student_performance(topic, correct)
observe_student_performance(self, topic, correct) ==
    LET observation == observation_of(topic, correct)
        model == update_belief(self.bayesian_model, <<observation>>)
    IN [self EXCEPT
            !.bayesian_model = model,
            !.session_history = Append(@,
                [topic |-> topic.name,
                 level |-> topic.level,
                 correct |-> correct,
                 observed_level |-> observation,
                 estimated_lambda |-> get_expected_lambda(model)])]

\* levels_ahead with the beginner test written current_level < 1
levels_ahead_choices_below_one(current_level) ==
    IF current_level < 1 THEN {1} ELSE {1, 2}

\* the outcomes of levels_ahead: 1 for beginners, random.randint(1, 2) otherwise
levels_ahead_choices(current_level) ==
    IF current_level <= 1 THEN {1} ELSE {1, 2}

\* the scan of all levels answering from the last level of the list
any_available_topic_of_last(kg, all_levels) ==
    IF all_levels = <<>> THEN {None}
    ELSE LET topics == get_topics_at_level(kg, all_levels[Len(all_levels)]) IN
         IF topics # <<>> THEN Range(topics) ELSE {None}

\* for level in all_levels: the outcomes of random.choice at the first level that
\* holds a topic, None when no level does
RECURSIVE any_available_topic(_, _)
any_available_topic(kg, all_levels) ==
    IF all_levels = <<>> THEN {None}
    ELSE LET topics == get_topics_at_level(kg, Head(all_levels)) IN
         IF topics # <<>> THEN Range(topics)
         ELSE any_available_topic(kg, Tail(all_levels))

\* get_next_topic without its last resort (the scan of all levels)
pick_next_topic_no_scan(kg, current_level, next_level_topics) ==
    LET accessible_topics ==
            SelectSeq(next_level_topics,
                      LAMBDA topic : is_valid_prerequisite(kg, topic.name, current_level))
        current_level_topics == get_topics_at_level(kg, current_level)
    IN IF accessible_topics # <<>> THEN Range(accessible_topics)
       ELSE IF current_level_topics # <<>> THEN Range(current_level_topics)
       ELSE {None}

\* get_next_topic scanning all levels before it looks at current_level
pick_next_topic_scan_first(kg, current_level, next_level_topics) ==
    LET accessible_topics ==
            SelectSeq(next_level_topics,
                      LAMBDA topic : is_valid_prerequisite(kg, topic.name, current_level))
        current_level_topics == get_topics_at_level(kg, current_level)
        scanned == any_available_topic(kg, get_all_levels(kg))
    IN IF accessible_topics # <<>> THEN Range(accessible_topics)
       ELSE IF scanned # {None} THEN scanned
       ELSE IF current_level_topics # <<>> THEN Range(current_level_topics)
       ELSE {None}

\* the returns of get_next_topic once levels_ahead and next_level_topics are known
pick_next_topic(kg, current_level, next_level_topics) ==
    LET accessible_topics ==
            SelectSeq(next_level_topics,
                      LAMBDA topic : is_valid_prerequisite(kg, topic.name, current_level))
        current_level_topics == get_topics_at_level(kg, current_level)
    IN IF accessible_topics # <<>> THEN Range(accessible_topics)
       ELSE IF current_level_topics # <<>> THEN Range(current_level_topics)
       ELSE any_available_topic(kg, get_all_levels(kg))

\* every outcome of get_next_topic(current_level): the advance distance drawn, the
\* candidates gathered with it, and the topic returned (or the exception raised)
get_next_topic(self, current_level) ==
    LET kg == self.knowledge_graph IN
    UNION {
        LET gathered == get_next_level_topics(kg, current_level, levels_ahead) IN
        IF gathered.raised # ""
        THEN {[levels_ahead |-> levels_ahead, next_level_topics |-> <<>>,
               raised |-> gathered.raised, value |-> None]}
        ELSE {[levels_ahead |-> levels_ahead, next_level_topics |-> gathered.value,
               raised |-> "", value |-> topic] :
                  topic \in pick_next_topic(kg, current_level, gathered.value)}
        : levels_ahead \in levels_ahead_choices(current_level)}

get_current_belief(self) ==
    LET belief == get_posterior_distribution(self.bayesian_model) IN
    [alpha |-> belief.alpha, beta |-> belief.beta,
     expected_lambda |-> belief.expected_lambda,
     current_level_estimate |-> get_expected_lambda(self.bayesian_model),
     session_history |-> Len(self.session_history)]

\* s[:5]
FirstFive(s) == IF Len(s) <= 5 THEN s ELSE SubSeq(s, 1, 5)

\* s[-5:]
LastFive(s) == IF Len(s) <= 5 THEN s ELSE SubSeq(s, Len(s) - 4, Len(s))

NoSessionData == [message |-> "No session data yet"]

\* get_session_summary with the filter on s['correct'] left out of the count
get_session_summary_count_all(self) ==
    IF self.session_history = <<>> THEN NoSessionData
    ELSE LET total_sessions == Len(self.session_history)
             correct_answers == Len(self.session_history)
         IN [total_sessions |-> total_sessions,
             correct_answers |-> correct_answers,
             accuracy |-> IF total_sessions > 0
                          THEN Frac(correct_answers, total_sessions)
                          ELSE Frac(0, 1),
             last_estimated_lambda |-> get_expected_lambda(self.bayesian_model),
             session_history |-> LastFive(self.session_history)]

get_session_summary(self) ==
    IF self.session_history = <<>> THEN NoSessionData
    ELSE LET total_sessions == Len(self.session_history)
             correct_answers ==
                 Len(SelectSeq(self.session_history, LAMBDA s : s.correct))
         IN [total_sessions |-> total_sessions,
             correct_answers |-> correct_answers,
             accuracy |-> IF total_sessions > 0
                          THEN Frac(correct_answers, total_sessions)
                          ELSE Frac(0, 1),
             last_estimated_lambda |-> get_expected_lambda(self.bayesian_model),
             session_history |-> LastFive(self.session_history)]

\* BayesianKnowledgeModel() takes the default prior (1.0, 1.0)
reset_session(self) ==
    [self EXCEPT !.bayesian_model = BayesianKnowledgeModel(1, 1),
                 !.current_student_level = 0,
                 !.session_history = <<>>]

Beginner == "Student is at a beginner level. Focus on foundational concepts."

Basic == "Student is progressing well with basic topics."

Intermediate ==
    "Student is developing intermediate skills. Progress to more complex concepts."

Advanced == "Student has solid knowledge. Challenge with advanced topics."

Expert ==
    "Student is demonstrating expert-level understanding. Consider specialized topics."

\* get_recommendation with <= in place of < at every threshold
get_recommendation_inclusive(self) ==
    LET lambda_estimate == get_expected_lambda(self.bayesian_model) IN
    IF ~FracLess(Frac(1, 2), lambda_estimate) THEN Beginner
    ELSE IF ~FracLess(Frac(3, 2), lambda_estimate) THEN Basic
    ELSE IF ~FracLess(Frac(5, 2), lambda_estimate) THEN Intermediate
    ELSE IF ~FracLess(Frac(7, 2), lambda_estimate) THEN Advanced
    ELSE Expert

get_recommendation(self) ==
    LET lambda_estimate == get_expected_lambda(self.bayesian_model) IN
    IF FracLess(lambda_estimate, Frac(1, 2)) THEN Beginner
    ELSE IF FracLess(lambda_estimate, Frac(3, 2)) THEN Basic
    ELSE IF FracLess(lambda_estimate, Frac(5, 2)) THEN Intermediate
    ELSE IF FracLess(lambda_estimate, Frac(7, 2)) THEN Advanced
    ELSE Expert

(***************************************************************************)
(* The state machine.                                                      *)
(***************************************************************************)
\* the teacher object the variables hold
teacher ==
    [knowledge_graph |-> knowledge_graph,
     bayesian_model |-> bayesian_model,
     current_student_level |-> current_student_level,
     session_history |-> session_history]

\* the variables become the attributes of self; the constructor arguments stay
Becomes(self) ==
    /\ knowledge_graph' = self.knowledge_graph
    /\ bayesian_model' = self.bayesian_model
    /\ current_student_level' = self.current_student_level
    /\ session_history' = self.session_history
    /\ UNCHANGED <<initial_alpha, initial_beta, web>>

\* no session service and no connection manager run beside the teacher
NoBackend ==
    /\ _sessions = <<>>
    /\ active_connections = <<>>
    /\ endpoints = <<>>
    /\ send_raises = ""

\* AITeacher(kg, a0, b0) has just been constructed
Constructed(kg, a0, b0) ==
    /\ knowledge_graph = kg
    /\ bayesian_model = BayesianKnowledgeModel(a0, b0)
    /\ current_student_level = 0
    /\ session_history = <<>>
    /\ initial_alpha = a0
    /\ initial_beta = b0
    /\ answers = <<>>
    /\ result = Returned("__init__", <<a0, b0>>, None)
    /\ NoBackend

ObserveStudentPerformance(topic, correct) ==
    /\ Becomes(observe_student_performance(teacher, topic, correct))
    /\ answers' = Append(answers, correct)
    /\ result' = Returned("observe_student_performance", <<topic, correct>>, None)

GetNextTopic(current_level) ==
    \E outcome \in get_next_topic(teacher, current_level) :
        /\ result' = [op |-> "get_next_topic", args |-> <<current_level>>,
                      raised |-> outcome.raised, value |-> outcome.value,
                      levels_ahead |-> outcome.levels_ahead,
                      next_level_topics |-> outcome.next_level_topics]
        /\ UNCHANGED <<knowledge_graph, bayesian_model, current_student_level,
                       session_history, initial_alpha, initial_beta, answers, web>>

GetRandomTopicAtLevel(level) ==
    \E topic \in get_random_topic_at_level(knowledge_graph, level) :
        /\ result' = Returned("get_random_topic_at_level", <<level>>, topic)
        /\ UNCHANGED <<knowledge_graph, bayesian_model, current_student_level,
                       session_history, initial_alpha, initial_beta, answers, web>>

\* knowledge_graph.get_topics_at_level(level) through indexing the defaultdict,
\* which adds the level with an empty list when it is unknown
GetTopicsAtLevelByIndex(level) ==
    /\ result' = Returned("get_topics_at_level", <<level>>,
                          get_topics_at_level(knowledge_graph, level))
    /\ knowledge_graph' =
           [knowledge_graph EXCEPT !.topics_by_level =
               [l \in DOMAIN knowledge_graph.topics_by_level \cup {level} |->
                   get_topics_at_level(knowledge_graph, l)]]
    /\ UNCHANGED <<bayesian_model, current_student_level,
                   session_history, initial_alpha, initial_beta, answers, web>>

\* knowledge_graph.get_topics_at_level(level)
GetTopicsAtLevel(level) ==
    /\ result' = Returned("get_topics_at_level", <<level>>,
                          get_topics_at_level(knowledge_graph, level))
    /\ UNCHANGED <<knowledge_graph, bayesian_model, current_student_level,
                   session_history, initial_alpha, initial_beta, answers, web>>

\* knowledge_graph.get_all_levels()
GetAllLevels ==
    /\ result' = Returned("get_all_levels", <<>>, get_all_levels(knowledge_graph))
    /\ UNCHANGED <<knowledge_graph, bayesian_model, current_student_level,
                   session_history, initial_alpha, initial_beta, answers, web>>

\* knowledge_graph.get_next_level_topics(current_level, max_levels_ahead)
GetNextLevelTopics(current_level, max_levels_ahead) ==
    LET outcome == get_next_level_topics(knowledge_graph, current_level,
                                         max_levels_ahead)
    IN /\ result' = [op |-> "get_next_level_topics",
                     args |-> <<current_level, max_levels_ahead>>,
                     raised |-> outcome.raised, value |-> outcome.value]
       /\ UNCHANGED <<knowledge_graph, bayesian_model, current_student_level,
                      session_history, initial_alpha, initial_beta, answers, web>>

\* knowledge_graph.add_topic(topic)
AddTopic(topic) ==
    /\ knowledge_graph' = add_topic(knowledge_graph, topic)
    /\ result' = Returned("add_topic", <<topic>>, None)
    /\ UNCHANGED <<bayesian_model, current_student_level,
                   session_history, initial_alpha, initial_beta, answers, web>>

GetCurrentBelief ==
    /\ result' = Returned("get_current_belief", <<>>, get_current_belief(teacher))
    /\ UNCHANGED <<knowledge_graph, bayesian_model, current_student_level,
                   session_history, initial_alpha, initial_beta, answers, web>>

GetSessionSummary ==
    /\ result' = Returned("get_session_summary", <<>>, get_session_summary(teacher))
    /\ UNCHANGED <<knowledge_graph, bayesian_model, current_student_level,
                   session_history, initial_alpha, initial_beta, answers, web>>

GetRecommendation ==
    /\ result' = Returned("get_recommendation", <<>>, get_recommendation(teacher))
    /\ UNCHANGED <<knowledge_graph, bayesian_model, current_student_level,
                   session_history, initial_alpha, initial_beta, answers, web>>

ResetSession ==
    /\ Becomes(reset_session(teacher))
    /\ answers' = <<>>
    /\ result' = Returned("reset_session", <<>>, None)

\* teacher.bayesian_model.update_belief(observations)
UpdateBelief(observations) ==
    /\ bayesian_model' = update_belief(bayesian_model, observations)
    /\ result' = Returned("update_belief", <<observations>>,
                          <<bayesian_model'.posterior_alpha,
                            bayesian_model'.posterior_beta>>)
    /\ UNCHANGED <<knowledge_graph, current_student_level, session_history,
                   initial_alpha, initial_beta, answers, web>>

(***************************************************************************)
(* Spec: a teacher on the sample graph, constructed with a prior in        *)
(* 1..MaxPrior x 1..MaxPrior, observing answers on one topic of each of    *)
(* the levels 0, 2 and 4, and asked for the next topic at the level the    *)
(* drivers pass, int(expected lambda) (cli.py:165,197).                    *)
(***************************************************************************)
Priors == (1..MaxPrior) \X (1..MaxPrior)

ObservedTopics ==
    {t \in Range(sample_topics) :
        t.name \in {"Introduction to Algebra", "Quadratic Equations",
                    "Calculus Fundamentals"}}

estimated_level == FracInt(get_expected_lambda(bayesian_model))

Init == \E prior \in Priors : Constructed(KnowledgeGraph, prior[1], prior[2])

Observe ==
    /\ Len(session_history) < MaxHistory
    /\ \E topic \in ObservedTopics, correct \in BOOLEAN :
           ObserveStudentPerformance(topic, correct)

Next ==
    \/ Observe
    \/ GetNextTopic(estimated_level)
    \/ GetCurrentBelief
    \/ GetSessionSummary
    \/ GetRecommendation
    \/ ResetSession

Spec == Init /\ [][Next]_vars

(***************************************************************************)
(* SpecAccumulate: the teacher of Spec in one session: reset_session is    *)
(* not called.                                                             *)
(***************************************************************************)
NextAccumulate ==
    \/ Observe
    \/ GetNextTopic(estimated_level)
    \/ GetCurrentBelief
    \/ GetSessionSummary
    \/ GetRecommendation

SpecAccumulate == Init /\ [][NextAccumulate]_vars

(***************************************************************************)
(* SpecSummary: one long session of a teacher with the default prior on    *)
(* two topics, long enough for the summary to drop records.                *)
(***************************************************************************)
LongSessionTopics ==
    {t \in Range(sample_topics) :
        t.name \in {"Introduction to Algebra", "Quadratic Equations"}}

InitSummary == Constructed(KnowledgeGraph, 1, 1)

ObserveLong ==
    /\ Len(session_history) < MaxLongHistory
    /\ \E topic \in LongSessionTopics, correct \in BOOLEAN :
           ObserveStudentPerformance(topic, correct)

NextSummary ==
    \/ ObserveLong
    \/ GetSessionSummary
    \/ ResetSession

SpecSummary == InitSummary /\ [][NextSummary]_vars

(***************************************************************************)
(* SpecGraph: get_next_topic and get_random_topic_at_level as functions of *)
(* the repository and the level.  The repository holds the sample topics   *)
(* of any set of levels (none, some with gaps, or all of them).            *)
(***************************************************************************)
HighestSampleLevel == SetMax({sample_topics[i].level : i \in DOMAIN sample_topics})

LevelArgs == (0 - LevelMargin)..(HighestSampleLevel + LevelMargin)

SubGraph(levels) ==
    AddAll(EmptyGraph, SelectSeq(sample_topics, LAMBDA t : t.level \in levels))

Repositories == {SubGraph(levels) : levels \in SUBSET (0..HighestSampleLevel)}

InitGraph == \E kg \in Repositories : Constructed(kg, 1, 1)

NextGraph ==
    \/ \E current_level \in LevelArgs : GetNextTopic(current_level)
    \/ \E level \in LevelArgs : GetRandomTopicAtLevel(level)
    \/ \E current_level \in LevelArgs, max_levels_ahead \in 0..MaxAhead :
           GetNextLevelTopics(current_level, max_levels_ahead)

SpecGraph == InitGraph /\ [][NextGraph]_vars

(***************************************************************************)
(* SpecEstimator: update_belief called directly with arrays of             *)
(* observations in 0..MaxObs, on a model with a prior in Priors.           *)
(***************************************************************************)
RECURSIVE ArraysOfLen(_)
ArraysOfLen(n) ==
    IF n = 0 THEN {<<>>}
    ELSE {Append(a, x) : a \in ArraysOfLen(n - 1), x \in 0..MaxObs}

ObsTotal == Len(Flatten(bayesian_model.observation_history))

InitEstimator == \E prior \in Priors : Constructed(KnowledgeGraph, prior[1], prior[2])

NextEstimator ==
    /\ Len(bayesian_model.observation_history) < MaxUpdates
    /\ \E n \in 0..(MaxObsTotal - ObsTotal) :
           \E observations \in ArraysOfLen(n) : UpdateBelief(observations)

SpecEstimator == InitEstimator /\ [][NextEstimator]_vars

(***************************************************************************)
(* SpecUnchecked: update_belief called directly with arrays that may hold  *)
(* negative observations, which the code accepts: values range over        *)
(* -MaxObs..MaxObs.                                                        *)
(***************************************************************************)
RECURSIVE SignedArraysOfLen(_)
SignedArraysOfLen(n) ==
    IF n = 0 THEN {<<>>}
    ELSE {Append(a, x) : a \in SignedArraysOfLen(n - 1), x \in (0 - MaxObs)..MaxObs}

InitUnchecked == \E prior \in Priors : Constructed(KnowledgeGraph, prior[1], prior[2])

NextUnchecked ==
    /\ Len(bayesian_model.observation_history) < MaxUpdates
    /\ \E n \in 0..(MaxObsTotal - ObsTotal) :
           \E observations \in SignedArraysOfLen(n) : UpdateBelief(observations)

SpecUnchecked == InitUnchecked /\ [][NextUnchecked]_vars

(***************************************************************************)
(* SpecReads: a teacher with the default prior on the sample graph; the    *)
(* read operations of the teacher and of the repository are called between *)
(* observations, with any level in LevelArgs.                              *)
(***************************************************************************)
InitReads == Constructed(KnowledgeGraph, 1, 1)

NextReads ==
    \/ Observe
    \/ \E current_level \in LevelArgs : GetNextTopic(current_level)
    \/ GetCurrentBelief
    \/ GetSessionSummary
    \/ GetRecommendation
    \/ \E level \in LevelArgs : GetTopicsAtLevel(level)
    \/ GetAllLevels

SpecReads == InitReads /\ [][NextReads]_vars

(***************************************************************************)
(* SpecRepo: the repository after construction and up to MaxAdds add_topic *)
(* calls: a new topic at a populated level, a topic at a new level whose   *)
(* prerequisite names no topic, and topics that reuse an existing name at  *)
(* a higher and at a lower level; get_next_topic is asked on the result.   *)
(***************************************************************************)
NewTopics == {
    Topic("Limits", 4, 97, <<"Calculus Fundamentals">>,
          "Limits of sequences and functions"),
    Topic("Set Theory", 6, 99, <<"Naive Logic">>,
          "Sets, relations and functions"),
    Topic("Linear Equations", 3, 45, <<"Introduction to Algebra">>,
          "Linear equations revisited"),
    Topic("Calculus Fundamentals", 2, 65, <<"Linear Equations">>,
          "A first look at rates of change") }

TopicCount(kg) ==
    LET levels == get_all_levels(kg) IN
    Len(Flatten([i \in DOMAIN levels |-> kg.topics_by_level[levels[i]]]))

InitRepo == Constructed(KnowledgeGraph, 1, 1)

NextRepo ==
    \/ /\ TopicCount(knowledge_graph) < Len(sample_topics) + MaxAdds
       /\ \E topic \in NewTopics : AddTopic(topic)
    \/ \E level \in LevelArgs : GetTopicsAtLevel(level)
    \/ GetAllLevels
    \/ \E current_level \in LevelArgs : GetNextTopic(current_level)

SpecRepo == InitRepo /\ [][NextRepo]_vars

(***************************************************************************)
(* services/session_service.py: SessionService.  self is the record of the *)
(* service's attributes; every session is created in "simple" mode with no *)
(* config, so its teacher is an AITeacher with the default prior.  The     *)
(* wall-clock fields (created_at, updated_at, timestamp) are left out.     *)
(***************************************************************************)
\* topic.name.lower().replace(" ", "_") on the names of the sample topics
topic_id(name) ==
    CASE name = "Introduction to Algebra" -> "introduction_to_algebra"
      [] name = "Variables and Expressions" -> "variables_and_expressions"
      [] name = "Linear Equations" -> "linear_equations"
      [] name = "Basic Inequalities" -> "basic_inequalities"
      [] name = "Quadratic Equations" -> "quadratic_equations"
      [] name = "Systems of Equations" -> "systems_of_equations"
      [] name = "Polynomial Functions" -> "polynomial_functions"
      [] name = "Trigonometric Basics" -> "trigonometric_basics"
      [] name = "Calculus Fundamentals" -> "calculus_fundamentals"

_topic_to_dict(topic) ==
    [id |-> topic_id(topic.name), name |-> topic.name, level |-> topic.level,
     difficulty |-> topic.difficulty, content |-> topic.content,
     prerequisites |-> topic.prerequisites]

\* the session without its "teacher" and "config" entries
_serialize_session(session) ==
    [session_id |-> session.session_id, mode |-> session.mode,
     use_llm |-> session.use_llm, target_questions |-> session.target_questions,
     current_topic |-> session.current_topic, belief |-> session.belief,
     belief_history |-> session.belief_history,
     topic_history |-> session.topic_history,
     total_answered |-> session.total_answered,
     correct_count |-> session.correct_count, accuracy |-> session.accuracy]

\* a service whose repository holds no topic of level 1
SessionService_without_level_one ==
    [_sessions |-> <<>>, _knowledge_graph |-> SubGraph({0, 2, 3, 4})]

\* SessionService()
SessionService == [_sessions |-> <<>>, _knowledge_graph |-> KnowledgeGraph]

\* one session dict shared by every session id of the service
StoreSession_shared(self, session_id, session) ==
    [self EXCEPT !._sessions =
        [id \in DOMAIN self._sessions \cup {session_id} |-> session]]

\* self._sessions with session stored under session_id (a new entry, or the
\* session dict of that id after it was updated in place)
StoreSession(self, session_id, session) ==
    [self EXCEPT !._sessions =
        [id \in DOMAIN self._sessions \cup {session_id} |->
            IF id = session_id THEN session ELSE self._sessions[id]]]

\* every outcome of create_session() when uuid4 draws session_id: the service
\* afterwards and the serialized session returned, or the exception raised
create_session(self, session_id) ==
    {IF current_topic = None
     THEN [self |-> self, raised |-> "AttributeError", value |-> None]
     ELSE LET teacher_ == AITeacher(self._knowledge_graph, 1, 1)
              session == [session_id |-> session_id, mode |-> "simple",
                          use_llm |-> FALSE, config |-> None,
                          target_questions |-> 5, teacher |-> teacher_,
                          current_topic |-> _topic_to_dict(current_topic),
                          belief |-> get_current_belief(teacher_),
                          belief_history |-> <<>>, topic_history |-> <<>>,
                          total_answered |-> 0, correct_count |-> 0,
                          accuracy |-> Frac(0, 1)]
          IN [self |-> StoreSession(self, session_id, session), raised |-> "",
              value |-> _serialize_session(session)]
     : current_topic \in get_random_topic_at_level(self._knowledge_graph, 0)}

\* answer.lower() on the answers submitted
lower(answer) ==
    CASE answer = "TRUE" -> "true"
      [] answer = "No" -> "no"
      [] OTHER -> answer

\* every outcome of submit_answer(session_id, answer) with use_llm False: the
\* service afterwards and the response returned, or the exception raised (the
\* session then keeps what was written before the raise)
submit_answer(self, session_id, answer) ==
    IF session_id \notin DOMAIN self._sessions
    THEN {[self |-> self, raised |-> "ValueError", value |-> None]}
    ELSE
    LET session == self._sessions[session_id]
        current_topic == get_topic_by_name(session.teacher.knowledge_graph,
                                           session.current_topic.name)
        correct == lower(answer) \in {"true", "correct", "yes", "1"}
        teacher_ == observe_student_performance(session.teacher, current_topic, correct)
        belief == get_current_belief(teacher_)
        estimated_level_ == FracInt(belief.expected_lambda)
        total == session.total_answered + 1
        count == session.correct_count + (IF correct THEN 1 ELSE 0)
        answered == [session EXCEPT
            !.teacher = teacher_,
            !.belief_history = Append(@, [topic |-> current_topic.name,
                                          correct |-> correct, belief |-> belief]),
            !.topic_history = Append(@, [topic |-> current_topic.name,
                                         level |-> current_topic.level,
                                         correct |-> correct]),
            !.total_answered = total,
            !.correct_count = count,
            !.accuracy = Frac(count, total)]
    IN {IF outcome.raised # ""
        THEN [self |-> StoreSession(self, session_id, answered),
              raised |-> outcome.raised, value |-> None]
        ELSE LET next_topic == outcome.value
                 updated == [answered EXCEPT
                     !.current_topic = IF next_topic # None
                                       THEN _topic_to_dict(next_topic) ELSE @,
                     !.belief = belief]
             IN [self |-> StoreSession(self, session_id, updated),
                 raised |-> "",
                 value |-> [correct |-> correct, updated_belief |-> belief,
                            next_topic |-> IF next_topic # None
                                           THEN updated.current_topic ELSE None,
                            total_answered |-> total, correct_count |-> count,
                            accuracy |-> updated.accuracy]]
        : outcome \in get_next_topic(teacher_, estimated_level_)}

\* SessionService.reset_session leaving correct_count as it was
service_reset_session_keeping_count(self, session_id) ==
    IF session_id \notin DOMAIN self._sessions
    THEN {[self |-> self, raised |-> "", value |-> FALSE]}
    ELSE
    {IF current_topic = None
     THEN [self |-> self, raised |-> "AttributeError", value |-> None]
     ELSE LET teacher_ == AITeacher(self._knowledge_graph, 1, 1)
              session == [self._sessions[session_id] EXCEPT
                  !.teacher = teacher_,
                  !.current_topic = _topic_to_dict(current_topic),
                  !.belief = get_current_belief(teacher_),
                  !.belief_history = <<>>,
                  !.topic_history = <<>>,
                  !.total_answered = 0,
                  !.accuracy = Frac(0, 1)]
          IN [self |-> StoreSession(self, session_id, session), raised |-> "",
              value |-> TRUE]
     : current_topic \in get_random_topic_at_level(self._knowledge_graph, 0)}

\* every outcome of SessionService.reset_session(session_id)
service_reset_session(self, session_id) ==
    IF session_id \notin DOMAIN self._sessions
    THEN {[self |-> self, raised |-> "", value |-> FALSE]}
    ELSE
    {IF current_topic = None
     THEN [self |-> self, raised |-> "AttributeError", value |-> None]
     ELSE LET teacher_ == AITeacher(self._knowledge_graph, 1, 1)
              session == [self._sessions[session_id] EXCEPT
                  !.teacher = teacher_,
                  !.current_topic = _topic_to_dict(current_topic),
                  !.belief = get_current_belief(teacher_),
                  !.belief_history = <<>>,
                  !.topic_history = <<>>,
                  !.total_answered = 0,
                  !.correct_count = 0,
                  !.accuracy = Frac(0, 1)]
          IN [self |-> StoreSession(self, session_id, session), raised |-> "",
              value |-> TRUE]
     : current_topic \in get_random_topic_at_level(self._knowledge_graph, 0)}

\* delete_session(session_id): the service afterwards and the value returned
delete_session(self, session_id) ==
    IF session_id \in DOMAIN self._sessions
    THEN [self |-> [self EXCEPT !._sessions =
                       [id \in DOMAIN self._sessions \ {session_id} |->
                           self._sessions[id]]],
          raised |-> "", value |-> TRUE]
    ELSE [self |-> self, raised |-> "", value |-> FALSE]

(***************************************************************************)
(* The session service as a state machine.  The routes of api/sessions.py  *)
(* are coroutines that call the service without awaiting, so each call     *)
(* runs to its end before the next one starts.  knowledge_graph holds the  *)
(* service's _knowledge_graph.                                             *)
(***************************************************************************)
\* the ids uuid4 draws from
SessionIds == {"s1", "s2"}

\* the answers submitted
Answers == {"TRUE", "1", "No"}

\* the service object the variables hold
service == [_sessions |-> _sessions, _knowledge_graph |-> knowledge_graph]

\* the variables of the teacher and of the connection manager, which the
\* service does not touch
BesideService ==
    UNCHANGED <<bayesian_model, current_student_level, session_history,
                initial_alpha, initial_beta, answers, active_connections, endpoints,
                send_raises>>

\* the service has just been constructed, or constructed with sessions
ServiceConstructed(self) ==
    /\ knowledge_graph = self._knowledge_graph
    /\ _sessions = self._sessions
    /\ bayesian_model = BayesianKnowledgeModel(1, 1)
    /\ current_student_level = 0
    /\ session_history = <<>>
    /\ initial_alpha = 1
    /\ initial_beta = 1
    /\ answers = <<>>
    /\ active_connections = <<>>
    /\ endpoints = <<>>
    /\ send_raises = ""
    /\ result = Returned("SessionService.__init__", <<>>, None)

CreateSession ==
    \E session_id \in SessionIds \ DOMAIN _sessions :
        \E outcome \in create_session(service, session_id) :
            /\ _sessions' = outcome.self._sessions
            /\ knowledge_graph' = outcome.self._knowledge_graph
            /\ result' = [op |-> "SessionService.create_session", args |-> <<>>,
                          raised |-> outcome.raised, value |-> outcome.value]
            /\ BesideService

SubmitAnswer(session_id, answer) ==
    \E outcome \in submit_answer(service, session_id, answer) :
        /\ _sessions' = outcome.self._sessions
        /\ knowledge_graph' = outcome.self._knowledge_graph
        /\ result' = [op |-> "SessionService.submit_answer",
                      args |-> <<session_id, answer>>,
                      raised |-> outcome.raised, value |-> outcome.value]
        /\ BesideService

ResetServiceSession(session_id) ==
    \E outcome \in service_reset_session(service, session_id) :
        /\ _sessions' = outcome.self._sessions
        /\ knowledge_graph' = outcome.self._knowledge_graph
        /\ result' = [op |-> "SessionService.reset_session",
                      args |-> <<session_id>>,
                      raised |-> outcome.raised, value |-> outcome.value]
        /\ BesideService

DeleteSession(session_id) ==
    LET outcome == delete_session(service, session_id) IN
    /\ _sessions' = outcome.self._sessions
    /\ knowledge_graph' = outcome.self._knowledge_graph
    /\ result' = [op |-> "SessionService.delete_session",
                  args |-> <<session_id>>,
                  raised |-> outcome.raised, value |-> outcome.value]
    /\ BesideService

(***************************************************************************)
(* SpecSessions: one service, up to two sessions at a time, at most        *)
(* MaxAnswered answers counted over the sessions; answers, resets and      *)
(* deletions also name ids that have no session, and an id that was        *)
(* deleted stands for a new one when it is drawn again.                    *)
(***************************************************************************)
RECURSIVE SumOver(_, _)
SumOver(f, S) ==
    IF S = {} THEN 0
    ELSE LET x == CHOOSE y \in S : TRUE IN f[x] + SumOver(f, S \ {x})

\* the answers the sessions of the service have counted
Answered == SumOver([id \in DOMAIN _sessions |-> _sessions[id].total_answered],
                    DOMAIN _sessions)

InitSessions == ServiceConstructed(SessionService)

NextSessions ==
    \/ CreateSession
    \/ /\ Answered < MaxAnswered
       /\ \E session_id \in SessionIds, answer \in Answers :
              SubmitAnswer(session_id, answer)
    \/ \E session_id \in SessionIds : ResetServiceSession(session_id)
    \/ \E session_id \in SessionIds : DeleteSession(session_id)

SpecSessions == InitSessions /\ [][NextSessions]_vars

(***************************************************************************)
(* SpecDriven: one session of the service driven for up to MaxDriven       *)
(* answers: each answer is observed on the current topic and the next      *)
(* topic is asked at int(expected lambda), as the loop of cli.py does.     *)
(***************************************************************************)
InitDriven ==
    \E outcome \in create_session(SessionService, "s1") :
        ServiceConstructed(outcome.self)

NextDriven ==
    \/ /\ _sessions["s1"].total_answered < MaxDriven
       /\ \E answer \in Answers : SubmitAnswer("s1", answer)
    \/ ResetServiceSession("s1")

SpecDriven == InitDriven /\ [][NextDriven]_vars

(***************************************************************************)
(* core/connection_manager.py and the websocket_endpoint of main.py.       *)
(* Every websocket has one websocket_endpoint coroutine; the coroutines    *)
(* run on one event loop and interleave at their awaits: accept(),         *)
(* receive_json() and each send_json() of a broadcast that reaches the     *)
(* server.  A WebSocket whose application_state is not CONNECTED raises    *)
(* RuntimeError from send_json() and receive_json() without awaiting.      *)
(* conns is the dict active_connections.                                   *)
(***************************************************************************)
\* ConnectionManager(): no connection
ConnectionManager == <<>>

\* list.remove(x) on a list that holds x: the list without its first x
remove(list, x) ==
    LET k == CHOOSE i \in DOMAIN list :
                 list[i] = x /\ \A j \in 1..(i - 1) : list[j] # x
    IN SubSeq(list, 1, k - 1) \o SubSeq(list, k + 1, Len(list))

\* connect after websocket.accept() has returned: the session's list is created
\* when the session is unknown, and the websocket is appended to it
connect(conns, websocket, session_id) ==
    [id \in DOMAIN conns \cup {session_id} |->
        IF id = session_id
        THEN Append(IF id \in DOMAIN conns THEN conns[id] ELSE <<>>, websocket)
        ELSE conns[id]]

\* disconnect(websocket, session_id): the dict afterwards and the exception raised
disconnect(conns, websocket, session_id) ==
    IF session_id \notin DOMAIN conns
    THEN [active_connections |-> conns, raised |-> ""]
    ELSE IF websocket \notin Range(conns[session_id])
    THEN [active_connections |-> conns, raised |-> "ValueError"]
    ELSE LET rest == remove(conns[session_id], websocket) IN
         IF rest = <<>>
         THEN [active_connections |->
                   [id \in DOMAIN conns \ {session_id} |-> conns[id]],
               raised |-> ""]
         ELSE [active_connections |-> [conns EXCEPT ![session_id] = rest],
               raised |-> ""]

\* for conn in disconnected: self.active_connections[session_id].remove(conn)
RECURSIVE remove_disconnected(_, _, _)
remove_disconnected(conns, session_id, disconnected) ==
    IF disconnected = <<>>
    THEN [active_connections |-> conns, raised |-> ""]
    ELSE IF session_id \notin DOMAIN conns
    THEN [active_connections |-> conns, raised |-> "KeyError"]
    ELSE IF Head(disconnected) \notin Range(conns[session_id])
    THEN [active_connections |-> conns, raised |-> "ValueError"]
    ELSE remove_disconnected(
             [conns EXCEPT ![session_id] = remove(@, Head(disconnected))],
             session_id, Tail(disconnected))

\* the websockets, and the session id in the path each one connects to
WebSockets == {"ws1", "ws2", "ws3"}

session_of(websocket) == IF websocket = "ws3" THEN "s2" ELSE "s1"

\* the exception classes the send callable of the server raises once the client
\* has gone: WebSocket.send turns an OSError into WebSocketDisconnect and sets
\* application_state to DISCONNECTED; any other exception passes through it
SendExceptions == {"OSError", "RuntimeError"}

\* a websocket_endpoint coroutine that has not been started: pc is where it
\* stands, closed tells that the client has gone, application_state is the
\* WebSocket's field of that name, messages counts the messages received; the
\* fields of broadcast are the locals of its broadcast_to_session call: the
\* position of the list iterator, the connection being sent to, whether it was
\* open when send_json was called, the disconnected list, the connections the
\* message went to, the list as it was when the loop started, and whether the
\* list iterated has been deleted from the dict since.  personal is the
\* send_personal_message call to the websocket: whether it is awaiting its
\* send_json, whether the websocket was open when send_json was called, and the
\* number of calls made.
NoBroadcast ==
    [index |-> 0, connection |-> "", open_at_send |-> FALSE, disconnected |-> <<>>,
     delivered |-> <<>>, start |-> <<>>, detached |-> FALSE]

NoPersonalMessage == [pc |-> "idle", open_at_send |-> FALSE, calls |-> 0]

Endpoint(websocket) ==
    [session_id |-> session_of(websocket), pc |-> "idle", closed |-> FALSE,
     application_state |-> "CONNECTING", messages |-> 0, broadcast |-> NoBroadcast,
     personal |-> NoPersonalMessage]

\* the variables of the teacher and of the session service, which the
\* connection manager does not touch, and the server, which stays the same
BesideConnections ==
    UNCHANGED <<knowledge_graph, bayesian_model, current_student_level,
                session_history, initial_alpha, initial_beta, answers, _sessions,
                send_raises>>

\* the list the iterator of a broadcast runs over
IteratedList(endpoint) ==
    IF endpoint.broadcast.detached THEN <<>>
    ELSE active_connections[endpoint.session_id]

\* the loop of broadcast_to_session from position index of list on, up to its
\* next await: send_json of a connection whose application_state is not
\* CONNECTED raises at once, without awaiting, and the connection is appended to
\* disconnected.  The position of the connection whose send_json awaits, or
\* Len(list) + 1 when the loop ends, and the disconnected list.
RECURSIVE send_json_raising(_, _, _, _)
send_json_raising(websockets, list, index, disconnected) ==
    IF /\ index <= Len(list)
       /\ websockets[list[index]].application_state # "CONNECTED"
    THEN send_json_raising(websockets, list, index + 1,
                           Append(disconnected, list[index]))
    ELSE [index |-> index, disconnected |-> disconnected]

\* the broadcast of websocket goes on from the position loop.index of list, in
\* the state websockets of the endpoints: it awaits the send_json of the
\* connection there, and the step ends with the result awaiting; or the loop has
\* ended: the disconnected connections are removed, and the endpoint ends with
\* the exception the removal raised, or calls receive_json() again, which
\* awaits, or raises RuntimeError at once when the application_state of the
\* websocket is not CONNECTED: the endpoint, which catches WebSocketDisconnect
\* only, ends with it.
Broadcast(websocket, websockets, list, loop, delivered, start, detached, awaiting) ==
    LET session_id == websockets[websocket].session_id
        cleaned == remove_disconnected(active_connections, session_id,
                                       loop.disconnected)
        connected == websockets[websocket].application_state = "CONNECTED"
    IN IF loop.index <= Len(list)
       THEN /\ endpoints' = [websockets EXCEPT
                   ![websocket].pc = "send",
                   ![websocket].broadcast =
                       [index |-> loop.index, connection |-> list[loop.index],
                        open_at_send |-> ~websockets[list[loop.index]].closed,
                        disconnected |-> loop.disconnected,
                        delivered |-> delivered, start |-> start,
                        detached |-> detached]]
            /\ result' = awaiting
            /\ UNCHANGED active_connections
       ELSE /\ active_connections' = cleaned.active_connections
            /\ endpoints' = [websockets EXCEPT
                   ![websocket].pc = IF cleaned.raised = "" /\ connected
                                     THEN "receive" ELSE "crashed",
                   ![websocket].broadcast = NoBroadcast]
            /\ result' = IF cleaned.raised = "" /\ ~connected
                         THEN [op |-> "receive_json", args |-> <<websocket>>,
                               raised |-> "RuntimeError", value |-> None]
                         ELSE [op |-> "broadcast_to_session",
                               args |-> <<session_id, websocket>>,
                               raised |-> cleaned.raised, value |-> None,
                               start |-> start, delivered |-> delivered]

\* a client opens websocket: websocket_endpoint starts, and accept() awaits
\* the websocket.connect message of the server
Connect(websocket) ==
    /\ endpoints[websocket].pc = "idle"
    /\ endpoints' = [endpoints EXCEPT ![websocket].pc = "accept"]
    /\ result' = Returned("websocket_endpoint", <<websocket>>, None)
    /\ UNCHANGED active_connections
    /\ BesideConnections

\* the websocket.connect message arrives inside accept(): the application_state
\* of the websocket is CONNECTED from now on, and accept() awaits the send of
\* the websocket.accept message; the websocket is not registered yet
AcceptSend(websocket) ==
    /\ endpoints[websocket].pc = "accept"
    /\ endpoints' = [endpoints EXCEPT ![websocket].pc = "accept_send",
                                      ![websocket].application_state = "CONNECTED"]
    /\ result' = Returned("receive", <<websocket>>, None)
    /\ UNCHANGED active_connections
    /\ BesideConnections

\* accept() returns: connect registers the websocket, the endpoint awaits
\* receive_json()
Accept(websocket) ==
    /\ endpoints[websocket].pc = "accept_send"
    /\ active_connections' = connect(active_connections, websocket,
                                     endpoints[websocket].session_id)
    /\ endpoints' = [endpoints EXCEPT ![websocket].pc = "receive"]
    /\ result' = Returned("connect", <<websocket, endpoints[websocket].session_id>>,
                          None)
    /\ BesideConnections

\* the client of websocket goes away
Close(websocket) ==
    /\ endpoints[websocket].pc \in {"receive", "send"}
    /\ ~endpoints[websocket].closed
    /\ endpoints' = [endpoints EXCEPT ![websocket].closed = TRUE]
    /\ result' = Returned("close", <<websocket>>, None)
    /\ UNCHANGED active_connections
    /\ BesideConnections

\* receive_json() returns a message: broadcast_to_session starts, and runs to
\* its first send_json that awaits, or to its end (unknown session, empty list,
\* or no connection whose send_json awaits)
ReceiveJson(websocket) ==
    LET endpoint == endpoints[websocket]
        session_id == endpoint.session_id
        list == IF session_id \in DOMAIN active_connections
                THEN active_connections[session_id] ELSE <<>>
        received == [endpoints EXCEPT ![websocket].messages = @ + 1]
    IN /\ endpoint.pc = "receive"
       /\ ~endpoint.closed
       /\ endpoint.messages < MaxMessages
       /\ Broadcast(websocket, received, list,
                    send_json_raising(received, list, 1, <<>>), <<>>, list, FALSE,
                    Returned("receive_json", <<websocket>>, None))
       /\ BesideConnections

\* a send_json of the broadcast of websocket completes: it raises when the
\* connection was closed before the call, and may have gone through or may
\* raise when the connection closed during the call.  When it raises and the
\* server raised OSError, the application_state of the connection is
\* DISCONNECTED from now on.  The loop then takes the next connection of the
\* list as the list is now, and goes on to its next await or to its end.
SendJson(websocket) ==
    LET endpoint == endpoints[websocket]
        broadcast == endpoint.broadcast
        connection == broadcast.connection
        list == IteratedList(endpoint)
    IN /\ endpoint.pc = "send"
       /\ \E sent \in IF ~endpoints[connection].closed THEN {TRUE}
                      ELSE IF broadcast.open_at_send THEN {TRUE, FALSE}
                      ELSE {FALSE} :
           LET delivered == IF sent THEN Append(broadcast.delivered, connection)
                            ELSE broadcast.delivered
               disconnected == IF sent THEN broadcast.disconnected
                               ELSE Append(broadcast.disconnected, connection)
               websockets == IF ~sent /\ send_raises = "OSError"
                             THEN [endpoints EXCEPT
                                      ![connection].application_state = "DISCONNECTED"]
                             ELSE endpoints
           IN Broadcast(websocket, websockets, list,
                        send_json_raising(websockets, list, broadcast.index + 1,
                                          disconnected),
                        delivered, broadcast.start, broadcast.detached,
                        Returned("send_json", <<connection>>, sent))
       /\ BesideConnections

\* the send_personal_message calls made so far
PersonalMessages ==
    SumOver([websocket \in WebSockets |-> endpoints[websocket].personal.calls],
            WebSockets)

\* send_personal_message(message, websocket) is called: send_json raises
\* RuntimeError at once when the application_state of the websocket is not
\* CONNECTED, and awaits the server otherwise
SendPersonalMessage(websocket) ==
    LET endpoint == endpoints[websocket]
        connected == endpoint.application_state = "CONNECTED"
    IN /\ endpoint.personal.pc = "idle"
       /\ PersonalMessages < MaxPersonal
       /\ endpoints' = [endpoints EXCEPT ![websocket].personal =
                  [pc |-> IF connected THEN "send" ELSE "idle",
                   open_at_send |-> connected /\ ~endpoint.closed,
                   calls |-> @.calls + 1]]
       /\ result' = [op |-> "send_personal_message", args |-> <<websocket>>,
                     raised |-> IF connected THEN "" ELSE "RuntimeError",
                     value |-> None]
       /\ UNCHANGED active_connections
       /\ BesideConnections

\* the send_json of send_personal_message completes: it returns, or raises as
\* a send_json of a broadcast does, and send_personal_message passes the
\* exception on: WebSocketDisconnect when the server raised OSError, and then
\* the application_state of the websocket is DISCONNECTED from now on; the
\* exception of the server otherwise
PersonalMessageSent(websocket) ==
    LET endpoint == endpoints[websocket]
    IN /\ endpoint.personal.pc = "send"
       /\ \E sent \in IF ~endpoint.closed THEN {TRUE}
                      ELSE IF endpoint.personal.open_at_send THEN {TRUE, FALSE}
                      ELSE {FALSE} :
           /\ endpoints' = [endpoints EXCEPT
                  ![websocket].personal = [@ EXCEPT !.pc = "idle",
                                                    !.open_at_send = FALSE],
                  ![websocket].application_state =
                      IF ~sent /\ send_raises = "OSError" THEN "DISCONNECTED"
                      ELSE @]
           /\ result' = [op |-> "send_json", args |-> <<websocket>>,
                         raised |-> IF sent THEN ""
                                    ELSE IF send_raises = "OSError"
                                    THEN "WebSocketDisconnect"
                                    ELSE send_raises,
                         value |-> sent]
       /\ UNCHANGED active_connections
       /\ BesideConnections

\* receive_json() raises WebSocketDisconnect: the endpoint calls disconnect and
\* ends, with the exception disconnect raised if it raised one.  When disconnect
\* deletes the session's list, the broadcasts iterating it keep the deleted,
\* empty list.
ReceiveDisconnect(websocket) ==
    LET endpoint == endpoints[websocket]
        session_id == endpoint.session_id
        outcome == disconnect(active_connections, websocket, session_id)
        deleted == /\ session_id \in DOMAIN active_connections
                   /\ session_id \notin DOMAIN outcome.active_connections
    IN /\ endpoint.pc = "receive"
       /\ endpoint.closed
       /\ active_connections' = outcome.active_connections
       /\ endpoints' =
              [w \in DOMAIN endpoints |->
                  IF w = websocket
                  THEN [endpoint EXCEPT !.pc = IF outcome.raised = "" THEN "done"
                                               ELSE "crashed"]
                  ELSE IF /\ deleted
                          /\ endpoints[w].pc = "send"
                          /\ endpoints[w].session_id = session_id
                  THEN [endpoints[w] EXCEPT !.broadcast.detached = TRUE]
                  ELSE endpoints[w]]
       /\ result' = [op |-> "disconnect", args |-> <<websocket, session_id>>,
                     raised |-> outcome.raised, value |-> None]
       /\ BesideConnections

(***************************************************************************)
(* SpecConnections: three clients, two on session s1 and one on s2; each   *)
(* sends at most MaxMessages messages and may go away at any time after    *)
(* the handshake.  The server is one that raises OSError, or one that      *)
(* raises another exception, on a send to a client that has gone.          *)
(* send_personal_message is called at most MaxPersonal times, at any time  *)
(* and with any of the websockets.                                         *)
(***************************************************************************)
InitConnections ==
    /\ active_connections = ConnectionManager
    /\ endpoints = [websocket \in WebSockets |-> Endpoint(websocket)]
    /\ send_raises \in SendExceptions
    /\ knowledge_graph = KnowledgeGraph
    /\ bayesian_model = BayesianKnowledgeModel(1, 1)
    /\ current_student_level = 0
    /\ session_history = <<>>
    /\ initial_alpha = 1
    /\ initial_beta = 1
    /\ answers = <<>>
    /\ _sessions = <<>>
    /\ result = Returned("ConnectionManager.__init__", <<>>, None)

NextConnections ==
    \E websocket \in WebSockets :
        \/ Connect(websocket)
        \/ AcceptSend(websocket)
        \/ Accept(websocket)
        \/ Close(websocket)
        \/ ReceiveJson(websocket)
        \/ SendJson(websocket)
        \/ ReceiveDisconnect(websocket)
        \/ SendPersonalMessage(websocket)
        \/ PersonalMessageSent(websocket)

SpecConnections == InitConnections /\ [][NextConnections]_vars

(***************************************************************************)
(* Properties.                                                             *)
(***************************************************************************)
\* every topic the repository holds under some level
AllTopics(kg) == UNION {Range(kg.topics_by_level[l]) : l \in DOMAIN kg.topics_by_level}

\* the levels that hold at least one topic
PopulatedLevels(kg) == {l \in DOMAIN kg.topics_by_level : kg.topics_by_level[l] # <<>>}

\* C1 (SpecEstimator): after any sequence of update_belief calls on a model with
\* prior (a0, b0), whose arrays hold n observations summing to S in total, the
\* posterior is exactly (a0 + S, b0 + n), and it is what the last call returned.
C1_ConjugateUpdate ==
    LET observed == Flatten(bayesian_model.observation_history) IN
    /\ bayesian_model.posterior_alpha = initial_alpha + SumSeq(observed)
    /\ bayesian_model.posterior_beta = initial_beta + Len(observed)
    /\ result.op = "update_belief" =>
           result.value = <<initial_alpha + SumSeq(observed),
                            initial_beta + Len(observed)>>

\* prior (1,1) and the single call update_belief([1,2,3]) give (7,4)
C1_Witness ==
    /\ initial_alpha = 1 /\ initial_beta = 1
    /\ result.op = "update_belief"
    /\ bayesian_model.observation_history = << <<1, 2, 3>> >>
    /\ result.value = <<7, 4>>

\* C2 (SpecGraph): on a repository that holds at least one topic, get_next_topic
\* returns a topic of the repository for every current_level (negative, populated,
\* in a gap, above the highest level) and every random outcome; it returns neither
\* None nor raises.
C2_FallbackLadderComplete ==
    (result.op = "get_next_topic" /\ AllTopics(knowledge_graph) # {}) =>
        /\ result.raised = ""
        /\ result.value # None
        /\ result.value \in AllTopics(knowledge_graph)

\* the last resort at work: a current_level above every populated level, on a
\* repository whose lowest level is not 0
C2_Witness ==
    /\ result.op = "get_next_topic"
    /\ PopulatedLevels(knowledge_graph) # {}
    /\ 0 \notin PopulatedLevels(knowledge_graph)
    /\ \A l \in PopulatedLevels(knowledge_graph) : l < result.args[1]
    /\ result.value \in AllTopics(knowledge_graph)

\* C3 (SpecGraph): on a repository that holds no topic, get_next_topic and
\* get_random_topic_at_level both return None and neither raises.
C3_EmptyRepositoryAbsent ==
    (AllTopics(knowledge_graph) = {}
        /\ result.op \in {"get_next_topic", "get_random_topic_at_level"}) =>
        /\ result.raised = ""
        /\ result.value = None

\* C4 (SpecGraph): when a level in (current_level, current_level + distance] holds
\* a topic, get_next_topic returns a topic of a level above current_level and at
\* most current_level + 2.
C4_SlightlyMoreChallenging ==
    (/\ result.op = "get_next_topic"
     /\ result.raised = ""
     /\ \E l \in (result.args[1] + 1)..(result.args[1] + result.levels_ahead) :
            get_topics_at_level(knowledge_graph, l) # <<>>) =>
        /\ result.value # None
        /\ result.value.level > result.args[1]
        /\ result.value.level <= result.args[1] + 2

\* C5 (SpecGraph): for current_level <= 1 the advance distance is exactly 1 and no
\* candidate gathered is of a level above current_level + 1; for current_level >= 2
\* the distance is 1 or 2.
C5_BeginnerRamp ==
    result.op = "get_next_topic" =>
        LET current_level == result.args[1] IN
        /\ current_level <= 1 =>
               /\ result.levels_ahead = 1
               /\ \A i \in DOMAIN result.next_level_topics :
                      result.next_level_topics[i].level <= current_level + 1
        /\ current_level >= 2 => result.levels_ahead \in {1, 2}

\* current_level = 1 on a repository with topics at levels 2 and 3: only the level-2
\* topics are gathered
C5_Witness ==
    /\ result.op = "get_next_topic"
    /\ result.args[1] = 1
    /\ {2, 3} \subseteq PopulatedLevels(knowledge_graph)
    /\ result.next_level_topics = get_topics_at_level(knowledge_graph, 2)

\* C6 (Spec): each observe_student_performance(topic, correct) feeds exactly one
\* integer to the estimator, topic.level + 1 when correct and max(0, topic.level - 1)
\* when not, so alpha grows by that value and beta by 1; from the posterior (1,1) a
\* correct answer on a level-2 topic feeds 3 and gives (4,2), expected value 2.
C6_ObservationMapping ==
    [][result'.op = "observe_student_performance" =>
          LET topic == result'.args[1]
              correct == result'.args[2]
              fed == IF correct THEN topic.level + 1
                     ELSE IF topic.level >= 1 THEN topic.level - 1 ELSE 0
          IN /\ bayesian_model'.observation_history =
                    Append(bayesian_model.observation_history, <<fed>>)
             /\ bayesian_model'.posterior_alpha = bayesian_model.posterior_alpha + fed
             /\ bayesian_model'.posterior_beta = bayesian_model.posterior_beta + 1
             /\ (/\ bayesian_model.posterior_alpha = 1
                 /\ bayesian_model.posterior_beta = 1
                 /\ topic.level = 2
                 /\ correct) =>
                    /\ fed = 3
                    /\ bayesian_model'.posterior_alpha = 4
                    /\ bayesian_model'.posterior_beta = 2
                    /\ get_expected_lambda(bayesian_model') = <<2, 1>>]_vars

\* a teacher with prior (1,1) has just seen a correct answer on a level-2 topic
C6_Witness ==
    /\ initial_alpha = 1 /\ initial_beta = 1
    /\ result.op = "observe_student_performance"
    /\ result.args[1].level = 2 /\ result.args[2]
    /\ Len(session_history) = 1
    /\ session_history[1].observed_level = 3
    /\ session_history[1].estimated_lambda = <<2, 1>>
    /\ bayesian_model.posterior_alpha = 4 /\ bayesian_model.posterior_beta = 2

\* C7 (Spec): after n >= 1 observe_student_performance calls since construction or
\* the last reset, get_session_summary reports total_sessions = n, correct_answers =
\* the number of those calls made with correct = true, and accuracy equal to
\* correct_answers / total_sessions.
C7_HistoryAccuracy ==
    (result.op = "get_session_summary" /\ Len(answers) >= 1) =>
        LET n == Len(answers)
            c == Cardinality({i \in 1..n : answers[i]})
        IN /\ result.value # NoSessionData
           /\ result.value.total_sessions = n
           /\ result.value.correct_answers = c
           /\ result.value.accuracy[2] > 0
           /\ result.value.accuracy[1] * n = c * result.value.accuracy[2]

\* a summary of three answers, two of them correct
C7_Witness ==
    /\ result.op = "get_session_summary"
    /\ Len(answers) = 3
    /\ Cardinality({i \in 1..3 : answers[i]}) = 2
    /\ result.value.correct_answers = 2
    /\ result.value.accuracy = <<2, 3>>

\* C8 (SpecSummary): get_session_summary returns the 'no data yet' sentinel if and
\* only if the session history is empty (an all-wrong session yields accuracy 0);
\* otherwise its session_history field holds the last min(5, n) records of the
\* history in their original order.
C8_SummarySentinelAndTail ==
    result.op = "get_session_summary" =>
        LET n == Len(session_history)
            k == IF n < 5 THEN n ELSE 5
        IN /\ (result.value = NoSessionData) <=> (n = 0)
           /\ n > 0 =>
                  /\ result.value.session_history =
                         [i \in 1..k |-> session_history[n - k + i]]
                  /\ (\A i \in 1..n : ~session_history[i].correct) =>
                         result.value.accuracy[1] = 0

\* a summary of six wrong answers: five records, the first one dropped
C8_Witness ==
    /\ result.op = "get_session_summary"
    /\ Len(session_history) = 6
    /\ \A i \in 1..6 : ~session_history[i].correct
    /\ session_history[1] # session_history[2]
    /\ Len(result.value.session_history) = 5
    /\ result.value.session_history[1] = session_history[2]
    /\ result.value.accuracy = <<0, 1>>

\* C9 (Spec): get_recommendation returns the beginner text when alpha/beta < 0.5,
\* basic when 0.5 <= alpha/beta < 1.5, intermediate when 1.5 <= alpha/beta < 2.5,
\* advanced when 2.5 <= alpha/beta < 3.5 and expert when alpha/beta >= 3.5.
C9_RecommendationBands ==
    result.op = "get_recommendation" =>
        LET a == bayesian_model.posterior_alpha
            b == bayesian_model.posterior_beta
        IN /\ (2 * a < b) <=> (result.value = Beginner)
           /\ (b <= 2 * a /\ 2 * a < 3 * b) <=> (result.value = Basic)
           /\ (3 * b <= 2 * a /\ 2 * a < 5 * b) <=> (result.value = Intermediate)
           /\ (5 * b <= 2 * a /\ 2 * a < 7 * b) <=> (result.value = Advanced)
           /\ (7 * b <= 2 * a) <=> (result.value = Expert)

\* alpha/beta is exactly 3.5 after observations, and the text is the expert one
C9_Witness ==
    /\ result.op = "get_recommendation"
    /\ session_history # <<>>
    /\ 2 * bayesian_model.posterior_alpha = 7 * bayesian_model.posterior_beta
    /\ result.value = Expert

\* C10 (Spec): after reset_session the posterior is the prior (a0, b0) the teacher
\* was constructed with, the session history is empty and the repository is the
\* one the teacher was given.
C10_ResetRestoresPrior ==
    result.op = "reset_session" =>
        /\ bayesian_model.posterior_alpha = initial_alpha
        /\ bayesian_model.posterior_beta = initial_beta
        /\ session_history = <<>>
        /\ knowledge_graph = KnowledgeGraph

\* C11 (SpecAccumulate): without a reset, every observe_student_performance call
\* adds exactly 1 to beta, no operation lowers beta or alpha, and in every state
\* beta = b0 + (length of the session history), b0 being the prior the teacher
\* was constructed with.
C11_MonotonicAccumulation ==
    /\ [](bayesian_model.posterior_beta = initial_beta + Len(session_history))
    /\ [][/\ bayesian_model'.posterior_beta >= bayesian_model.posterior_beta
          /\ bayesian_model'.posterior_alpha >= bayesian_model.posterior_alpha
          /\ result'.op = "observe_student_performance" =>
                 bayesian_model'.posterior_beta
                     = bayesian_model.posterior_beta + 1]_vars

\* a teacher constructed with the prior (1, 2) has observed three answers, the
\* last one correct: beta is 5 and alpha has grown
C11_Witness ==
    /\ result.op = "observe_student_performance"
    /\ result.args[2] = TRUE
    /\ initial_alpha = 1
    /\ initial_beta = 2
    /\ Len(session_history) = 3
    /\ bayesian_model.posterior_beta = 5
    /\ bayesian_model.posterior_alpha > initial_alpha

\* C12 (SpecEstimator), as claimed: alpha/beta^2 after an update is at most its
\* value before the update.
C12_MonotonicConcentration ==
    [][result'.op = "update_belief" =>
          bayesian_model'.posterior_alpha
              * bayesian_model.posterior_beta * bayesian_model.posterior_beta
          <= bayesian_model.posterior_alpha
              * bayesian_model'.posterior_beta * bayesian_model'.posterior_beta]_vars

\* C12 (SpecEstimator), amended: alpha/beta^2 after an update is at most its value
\* before the update whenever the mean of the new observations is at most the
\* current alpha/beta (sum * beta <= count * alpha).
C12_ConcentrationBelowMean ==
    [][result'.op = "update_belief" =>
          LET observations == result'.args[1]
              a == bayesian_model.posterior_alpha
              b == bayesian_model.posterior_beta
          IN SumSeq(observations) * b <= Len(observations) * a =>
                 bayesian_model'.posterior_alpha * b * b
                 <= a * bayesian_model'.posterior_beta
                      * bayesian_model'.posterior_beta]_vars

\* prior (1,1) and update_belief([1]): 1/1 drops to 2/4
C12_Witness ==
    /\ initial_alpha = 1 /\ initial_beta = 1
    /\ result.op = "update_belief"
    /\ bayesian_model.observation_history = << <<1>> >>
    /\ bayesian_model.posterior_alpha = 2 /\ bayesian_model.posterior_beta = 2

\* C13 (Spec): get_expected_lambda is alpha/beta of the current posterior and is
\* strictly positive, in every state reached from a positive prior by teacher
\* observations; get_current_belief reports that value.
C13_ExpectedLambdaPositive ==
    LET expected == get_expected_lambda(bayesian_model) IN
    /\ expected[2] > 0
    /\ expected[1] * bayesian_model.posterior_beta
           = bayesian_model.posterior_alpha * expected[2]
    /\ expected[1] > 0
    /\ result.op = "get_current_belief" => result.value.expected_lambda = expected

\* three wrong answers on a level-0 topic feed 0 three times: prior (1,1) gives 1/4
C13_Witness ==
    /\ initial_alpha = 1 /\ initial_beta = 1
    /\ result.op = "get_current_belief"
    /\ Len(session_history) = 3
    /\ \A i \in 1..3 : session_history[i].observed_level = 0
    /\ result.value.expected_lambda = <<1, 4>>

\* C14 (SpecEstimator), as claimed: update_belief([]) returns the current
\* (alpha, beta) and leaves the whole estimator, histories included, as it was.
C14_EmptyUpdateNoOp ==
    [][(result'.op = "update_belief" /\ result'.args[1] = <<>>) =>
          /\ result'.value = <<bayesian_model.posterior_alpha,
                               bayesian_model.posterior_beta>>
          /\ bayesian_model' = bayesian_model]_vars

\* C14 (SpecEstimator), amended: update_belief([]) returns the current
\* (alpha, beta) and leaves alpha, beta and the prior unchanged, but records the
\* call: it appends the unchanged expected value to lambda_history and the empty
\* array to observation_history.
C14_EmptyUpdateKeepsBelief ==
    [][(result'.op = "update_belief" /\ result'.args[1] = <<>>) =>
          /\ result'.value = <<bayesian_model.posterior_alpha,
                               bayesian_model.posterior_beta>>
          /\ bayesian_model'.posterior_alpha = bayesian_model.posterior_alpha
          /\ bayesian_model'.posterior_beta = bayesian_model.posterior_beta
          /\ bayesian_model'.alpha = bayesian_model.alpha
          /\ bayesian_model'.beta = bayesian_model.beta
          /\ bayesian_model'.lambda_history =
                 Append(bayesian_model.lambda_history,
                        get_expected_lambda(bayesian_model))
          /\ bayesian_model'.observation_history =
                 Append(bayesian_model.observation_history, <<>>)]_vars

\* update_belief([2]) and then update_belief([]) on prior (1,1)
C14_Witness ==
    /\ initial_alpha = 1 /\ initial_beta = 1
    /\ result.op = "update_belief" /\ result.args[1] = <<>>
    /\ bayesian_model.observation_history = << <<2>>, <<>> >>
    /\ bayesian_model.lambda_history = << <<3, 2>>, <<3, 2>> >>
    /\ result.value = <<3, 2>>

\* C15 (SpecUnchecked): update_belief with a negative observation fails with
\* InvalidObservation, and alpha is never below its prior value.
C15_InvalidObservationRejected ==
    /\ (result.op = "update_belief"
            /\ \E i \in DOMAIN result.args[1] : result.args[1][i] < 0) =>
           result.raised = "InvalidObservation"
    /\ bayesian_model.posterior_alpha >= initial_alpha

\* the position of topic in the list topics
IndexIn(topics, topic) == CHOOSE k \in DOMAIN topics : topics[k] = topic

\* C16 (SpecGraph): on a non-empty repository get_next_level_topics(current_level,
\* max_levels_ahead) returns exactly the topics of the levels current_level+1 ..
\* min(current_level+max_levels_ahead, highest populated level), each once, by
\* ascending level and in insertion order inside a level; none is at or below
\* current_level, and the list is empty when the range is.
C16_NextLevelTopics ==
    (result.op = "get_next_level_topics" /\ AllTopics(knowledge_graph) # {}) =>
        LET current_level == result.args[1]
            reach == result.args[1] + result.args[2]
            highest == SetMax(PopulatedLevels(knowledge_graph))
            last == IF reach < highest THEN reach ELSE highest
            wanted == {t \in AllTopics(knowledge_graph) :
                          current_level + 1 <= t.level /\ t.level <= last}
            got == result.value
        IN /\ result.raised = ""
           /\ Range(got) = wanted
           /\ Len(got) = Cardinality(wanted)
           /\ \A i \in DOMAIN got : got[i].level > current_level
           /\ \A i, j \in DOMAIN got :
                  i < j =>
                      /\ got[i].level <= got[j].level
                      /\ got[i].level = got[j].level =>
                             IndexIn(knowledge_graph.topics_by_level[got[i].level], got[i])
                             < IndexIn(knowledge_graph.topics_by_level[got[i].level], got[j])
           /\ last < current_level + 1 => got = <<>>

\* get_next_level_topics(1, 2) on the sample graph: the topics of levels 2 and 3
C16_Witness ==
    /\ knowledge_graph = KnowledgeGraph
    /\ result.op = "get_next_level_topics"
    /\ result.args = <<1, 2>>
    /\ Len(result.value) = 4
    /\ result.value[1].name = "Quadratic Equations"
    /\ result.value[2].name = "Systems of Equations"
    /\ result.value[3].name = "Polynomial Functions"
    /\ result.value[4].name = "Trigonometric Basics"

\* C17 (SpecReads): get_current_belief, get_session_summary, get_recommendation,
\* get_topics_at_level, get_all_levels and get_next_topic leave the estimator, the
\* session history and the repository unchanged; a second call of
\* get_current_belief, get_topics_at_level or get_all_levels right after a first
\* one with the same argument returns the same value; get_topics_at_level on an
\* unknown level returns the empty list and adds no level.
C17_ReadsArePure ==
    [][/\ result'.op \in {"get_current_belief", "get_session_summary",
                          "get_recommendation", "get_topics_at_level",
                          "get_all_levels", "get_next_topic"} =>
              /\ bayesian_model' = bayesian_model
              /\ session_history' = session_history
              /\ knowledge_graph' = knowledge_graph
       /\ (/\ result'.op \in {"get_current_belief", "get_topics_at_level",
                              "get_all_levels"}
           /\ result.op = result'.op
           /\ result.args = result'.args) =>
              result'.value = result.value
       /\ (/\ result'.op = "get_topics_at_level"
           /\ result'.args[1] \notin DOMAIN knowledge_graph.topics_by_level) =>
              /\ result'.raised = ""
              /\ result'.value = <<>>
              /\ get_all_levels(knowledge_graph') = get_all_levels(knowledge_graph)]_vars

\* get_topics_at_level(5) on the sample graph, after an observation
C17_Witness ==
    /\ result.op = "get_topics_at_level"
    /\ result.args[1] = 5
    /\ result.value = <<>>
    /\ session_history # <<>>
    /\ get_all_levels(knowledge_graph) = <<0, 1, 2, 3, 4>>

\* C18 (SpecGraph): get_random_topic_at_level(level) returns a topic listed under
\* that level (so of that level) when the level holds a topic, and returns None if
\* and only if it holds none.
C18_RandomTopicAtLevel ==
    result.op = "get_random_topic_at_level" =>
        LET level == result.args[1]
            held == IF level \in DOMAIN knowledge_graph.topics_by_level
                    THEN Range(knowledge_graph.topics_by_level[level]) ELSE {}
        IN /\ result.raised = ""
           /\ (result.value = None) <=> (held = {})
           /\ held # {} => (result.value \in held /\ result.value.level = level)

\* the second topic of level 3 is drawn on a repository that also holds level 4
C18_Witness ==
    /\ result.op = "get_random_topic_at_level"
    /\ result.args[1] = 3
    /\ 4 \in PopulatedLevels(knowledge_graph)
    /\ result.value # None
    /\ result.value.name = "Trigonometric Basics"

\* C19 (SpecRepo): every name listed in the prerequisites of a topic of the
\* repository is the name of a topic of the repository.
C19_PrerequisitesResolve ==
    \A t \in AllTopics(knowledge_graph) :
        \A i \in DOMAIN t.prerequisites :
            t.prerequisites[i] \in DOMAIN knowledge_graph.topics_by_name

\* C20 (Spec): observe_student_performance appends exactly one record, for its
\* topic and answer, and leaves the earlier records as they were; get_next_topic,
\* get_current_belief, get_session_summary and get_recommendation leave the
\* history unchanged; no step other than reset_session shrinks or reorders it.
C20_AppendOnlyHistory ==
    [][/\ result'.op = "observe_student_performance" =>
              /\ Len(session_history') = Len(session_history) + 1
              /\ SubSeq(session_history', 1, Len(session_history)) = session_history
              /\ session_history'[Len(session_history')].topic = result'.args[1].name
              /\ session_history'[Len(session_history')].correct = result'.args[2]
       /\ result'.op \in {"get_next_topic", "get_current_belief",
                          "get_session_summary", "get_recommendation"} =>
              session_history' = session_history
       /\ result'.op # "reset_session" =>
              /\ Len(session_history') >= Len(session_history)
              /\ SubSeq(session_history', 1, Len(session_history))
                     = session_history]_vars

\* a third record has just been appended after two different ones
C20_Witness ==
    /\ result.op = "observe_student_performance"
    /\ Len(session_history) = 3
    /\ session_history[3].topic = result.args[1].name
    /\ session_history[1] # session_history[2]
    /\ session_history[2] # session_history[3]


\* the observed_level values of the records of a history, in order
ObservedLevels(history) == [i \in DOMAIN history |-> history[i].observed_level]

\* C21 (Spec): after every operation the belief and the history agree: there are
\* as many records as updates applied to the estimator since construction or the
\* last reset, alpha is the estimator's prior alpha plus the observed levels of
\* the records, beta its prior beta plus their number, the last record's
\* observed_level is the observation last fed to the estimator and its
\* estimated_lambda is the current alpha/beta.
C21_BeliefMatchesHistory ==
    LET n == Len(session_history) IN
    /\ Len(bayesian_model.observation_history) = n
    /\ Len(bayesian_model.lambda_history) = n
    /\ Len(answers) = n
    /\ bayesian_model.posterior_alpha
           = bayesian_model.alpha + SumSeq(ObservedLevels(session_history))
    /\ bayesian_model.posterior_beta = bayesian_model.beta + n
    /\ n > 0 =>
           /\ bayesian_model.observation_history[n] = <<session_history[n].observed_level>>
           /\ session_history[n].estimated_lambda
                  = Frac(bayesian_model.posterior_alpha, bayesian_model.posterior_beta)
           /\ session_history[n].correct = answers[n]

\* the third observation of a session, a right answer on the level-4 topic
C21_Witness ==
    /\ result.op = "observe_student_performance"
    /\ Len(session_history) = 3
    /\ session_history[3].observed_level = 5
    /\ session_history[3].estimated_lambda # session_history[2].estimated_lambda
    /\ bayesian_model.posterior_alpha > bayesian_model.alpha + 5

\* C23 (SpecGraph): on a repository that holds a topic, when no candidate gathered
\* above current_level is accessible and the level current_level holds no topic,
\* get_next_topic returns a topic of the lowest populated level.
C23_LastResortLowestLevel ==
    (/\ result.op = "get_next_topic"
     /\ AllTopics(knowledge_graph) # {}
     /\ get_topics_at_level(knowledge_graph, result.args[1]) = <<>>
     /\ SelectSeq(result.next_level_topics,
                  LAMBDA topic : is_valid_prerequisite(knowledge_graph, topic.name,
                                                       result.args[1])) = <<>>) =>
        /\ result.raised = ""
        /\ result.value \in AllTopics(knowledge_graph)
        /\ result.value.level = SetMin(PopulatedLevels(knowledge_graph))

\* get_next_topic(-1) on the repository of the levels 2 and 4: candidates are
\* gathered (levels 0..) but none is accessible, and a level-2 topic is returned
C23_Witness ==
    /\ result.op = "get_next_topic"
    /\ result.args = <<0 - 1>>
    /\ PopulatedLevels(knowledge_graph) = {2, 4}
    /\ result.value # None
    /\ result.value.name = "Systems of Equations"

\* C24 (SpecRepo): for a current_level that holds a topic, get_next_topic returns a
\* topic whose level is between current_level and current_level + 2 inclusive.
C24_NextTopicLevelRange ==
    (/\ result.op = "get_next_topic"
     /\ result.args[1] \in PopulatedLevels(knowledge_graph)) =>
        /\ result.raised = ""
        /\ result.value # None
        /\ result.value.level >= result.args[1]
        /\ result.value.level <= result.args[1] + 2

\* get_next_topic(1) on the sample graph returns a topic of level 1
C24_Witness ==
    /\ knowledge_graph = KnowledgeGraph
    /\ result.op = "get_next_topic"
    /\ result.args = <<1>>
    /\ result.value # None
    /\ result.value.level \in {1, 2, 3}

\* C26 (SpecRepo): in every call of get_next_topic no gathered candidate passes
\* the filter, and the call returns a topic of exactly current_level whenever
\* that level holds a topic.
C26_NeverAdvances ==
    (result.op = "get_next_topic" /\ result.raised = "") =>
        /\ SelectSeq(result.next_level_topics,
                     LAMBDA topic : is_valid_prerequisite(knowledge_graph, topic.name,
                                                          result.args[1])) = <<>>
        /\ get_topics_at_level(knowledge_graph, result.args[1]) # <<>> =>
               (result.value # None /\ result.value.level = result.args[1])

\* the number of places of the by-level index that hold topic
Occurrences(kg, topic) ==
    Cardinality({pos \in UNION {{<<l, i>> : i \in DOMAIN kg.topics_by_level[l]} :
                                   l \in DOMAIN kg.topics_by_level} :
                     kg.topics_by_level[pos[1]][pos[2]] = topic})

\* C30 (SpecRepo): the two indexes hold the same topics: every topic listed under
\* level l has level l and is the topic get_topic_by_name returns for its name,
\* and every topic of the by-name index is listed exactly once by level.
C30_IndexesAgree ==
    /\ \A l \in DOMAIN knowledge_graph.topics_by_level :
           \A i \in DOMAIN knowledge_graph.topics_by_level[l] :
               LET topic == knowledge_graph.topics_by_level[l][i] IN
               /\ topic.level = l
               /\ get_topic_by_name(knowledge_graph, topic.name) = topic
    /\ \A name \in DOMAIN knowledge_graph.topics_by_name :
           Occurrences(knowledge_graph, knowledge_graph.topics_by_name[name]) = 1


\* C22 (SpecSessions): submit_answer, reset_session and delete_session on one
\* session leave every other session of the service as it was (its teacher
\* with alpha, beta and the session history, its histories, counters, belief
\* and current topic), and no
\* operation of the service, create_session included, changes the topics of the
\* shared repository, which every session's teacher keeps using.
C22_SessionIsolation ==
    [][/\ result'.op \in {"SessionService.submit_answer",
                          "SessionService.reset_session",
                          "SessionService.delete_session"} =>
              \A other \in DOMAIN _sessions \ {result'.args[1]} :
                  /\ other \in DOMAIN _sessions'
                  /\ _sessions'[other] = _sessions[other]
       /\ result'.op = "SessionService.create_session" =>
              \A other \in DOMAIN _sessions :
                  /\ other \in DOMAIN _sessions'
                  /\ _sessions'[other] = _sessions[other]
       /\ knowledge_graph' = knowledge_graph
       /\ \A id \in DOMAIN _sessions' :
              _sessions'[id].teacher.knowledge_graph = knowledge_graph']_vars

\* an answer has just been counted on s1 while s2 holds an answered question
C22_Witness ==
    /\ result.op = "SessionService.submit_answer"
    /\ result.args[1] = "s1"
    /\ result.raised = ""
    /\ DOMAIN _sessions = {"s1", "s2"}
    /\ _sessions["s1"].total_answered = 2
    /\ _sessions["s2"].total_answered = 1
    /\ _sessions["s2"].teacher.session_history # <<>>
    /\ _sessions["s1"].teacher.bayesian_model # _sessions["s2"].teacher.bayesian_model

\* C27 (SpecDriven): in a session driven from the default prior on the sample
\* graph, 0 < alpha/beta < 5 in every state, int(alpha/beta) is a populated level
\* among 0..4, the current topic is a topic of the repository, and every answer
\* is given a next topic.
C27_DrivenEstimateBounded ==
    /\ \A id \in DOMAIN _sessions :
           LET model == _sessions[id].teacher.bayesian_model
               expected == get_expected_lambda(model)
           IN /\ model.alpha = 1 /\ model.beta = 1
              /\ expected[2] > 0
              /\ expected[1] > 0
              /\ expected[1] < 5 * expected[2]
              /\ expected[1] * model.posterior_beta = model.posterior_alpha * expected[2]
              /\ FracInt(expected) \in 0..4
              /\ FracInt(expected) \in PopulatedLevels(knowledge_graph)
              /\ _sessions[id].current_topic # None
              /\ get_topic_by_name(knowledge_graph, _sessions[id].current_topic.name)
                     \in AllTopics(knowledge_graph)
    /\ result.op = "SessionService.submit_answer" =>
           /\ result.raised = ""
           /\ result.value.next_topic # None
           /\ result.value.next_topic.level
                  = FracInt(result.value.updated_belief.expected_lambda)

\* five right answers in a row: alpha/beta is 10/6 and the next topic is of level 1
C27_Witness ==
    /\ result.op = "SessionService.submit_answer"
    /\ _sessions["s1"].total_answered = 5
    /\ _sessions["s1"].correct_count = 5
    /\ get_expected_lambda(_sessions["s1"].teacher.bayesian_model) = <<5, 3>>
    /\ _sessions["s1"].current_topic.level = 1

\* the number of records of a history that are marked correct
CorrectRecords(history) == Len(SelectSeq(history, LAMBDA record : record.correct))

\* C28 (SpecSessions): in every session total_answered is the length of
\* topic_history, of belief_history and of the teacher's session history,
\* correct_count is the number of topic_history records marked correct and lies
\* in 0..total_answered, and accuracy is correct_count / total_answered, or 0
\* when nothing was answered.
C28_SessionBookkeeping ==
    \A id \in DOMAIN _sessions :
        LET session == _sessions[id] IN
        /\ session.total_answered = Len(session.topic_history)
        /\ session.total_answered = Len(session.belief_history)
        /\ session.total_answered = Len(session.teacher.session_history)
        /\ session.correct_count = CorrectRecords(session.topic_history)
        /\ 0 <= session.correct_count
        /\ session.correct_count <= session.total_answered
        /\ session.accuracy = IF session.total_answered > 0
                              THEN Frac(session.correct_count, session.total_answered)
                              ELSE Frac(0, 1)

\* a session with two right answers out of three, beside a session that was reset
C28_Witness ==
    /\ DOMAIN _sessions = {"s1", "s2"}
    /\ result.op = "SessionService.reset_session"
    /\ result.args = <<"s2">>
    /\ result.value = TRUE
    /\ _sessions["s1"].total_answered = 3
    /\ _sessions["s1"].correct_count = 2
    /\ _sessions["s1"].accuracy = <<2, 3>>
    /\ _sessions["s2"].total_answered = 0


\* the number of times x occurs in the list s
Count(s, x) == Cardinality({i \in DOMAIN s : s[i] = x})

\* the websockets registered under some session
Registered == UNION {Range(active_connections[id]) : id \in DOMAIN active_connections}

\* C25 (SpecConnections): when a broadcast ends, every websocket that was in the
\* session's list when it started and is in it now has been sent the message
\* exactly once.
C25_BroadcastReachesAll ==
    result.op = "broadcast_to_session" =>
        \A websocket \in Range(result.start) :
            (/\ result.args[1] \in DOMAIN active_connections
             /\ websocket \in Range(active_connections[result.args[1]])) =>
                Count(result.delivered, websocket) = 1

\* C29 (SpecConnections): a disconnect of a websocket that was connected raises
\* nothing, and after it the websocket is registered nowhere and no session id
\* maps to an empty list.
C29_DisconnectIsSafe ==
    result.op = "disconnect" =>
        /\ result.raised = ""
        /\ result.args[1] \notin Registered
        /\ \A id \in DOMAIN active_connections : active_connections[id] # <<>>

====
